---- MODULE Spec2Model ----
(***************************************************************************)
(* State-machine model of src/app.py (device downtime tracker).           *)
(*                                                                         *)
(* Persistent state: the tables devices and faults.  Per-session state:   *)
(* st.session_state.admin_authed, the widgets of the forms, the message   *)
(* the last script run displayed, and the position of the session's       *)
(* script run (each Streamlit session runs its script in its own thread,  *)
(* so the SQL statements of different sessions interleave).                *)
(*                                                                         *)
(* Optional values (Python None / SQL NULL) are sequences of length 0 or  *)
(* 1.  Text is a sequence of one-character strings.  Instants are whole   *)
(* seconds counted from 2016-03-27 00:00:00 (UTC instants from that UTC   *)
(* midnight, wall-clock values from that local midnight).                  *)
(***************************************************************************)
EXTENDS Integers, Sequences, FiniteSets, TLC

VARIABLES
  secrets_token,  \* st.secrets["ADMIN_TOKEN"], optional
  env_token,      \* os.environ["ADMIN_TOKEN"], optional
  admin_authed,   \* per session: st.session_state.admin_authed
  pc,             \* per session: "idle", "insert" (device INSERT pending),
                  \*   "form" (edit form shown), "update" (UPDATE pending)
  msg,            \* per session: what the last script run reported
  pend,           \* per session: the normalized device name being inserted
  devices,        \* table devices, row i has id i
  faults,         \* table faults, row i has id i
  edit,           \* per session: st.session_state.edit_id, optional
  form,           \* per session: the values of the submitted edit form
  view            \* per session: the last listing (range and rows)

vars == <<secrets_token, env_token, admin_authed, pc, msg, pend, devices,
          faults, edit, form, view>>
faultvars == <<faults, edit, form, view>>

\* ------------------------------------------------------------- bounds
MaxNameLen == 4
MaxLetters == 2
MaxDevices == 2
MaxClock == 0
MaxFaults == 2
MaxSlot == 2
MaxDay == 1

\* ------------------------------------------------------------- helpers
None == <<>>
Some(x) == <<x>>
Val(o) == o[1]

Sessions == {"s1", "s2"}

\* ------------------------------------------------------------- text
Letters == {"a", "A"}
White == {" "}
Alphabet == Letters \cup White

RECURSIVE SeqsUpTo(_, _)
SeqsUpTo(S, n) ==
  IF n = 0 THEN {<<>>}
  ELSE LET shorter == SeqsUpTo(S, n - 1)
       IN shorter \cup {Append(q, c) : q \in {r \in shorter : Len(r) = n - 1}, c \in S}

NumLetters(s) == Cardinality({i \in 1..Len(s) : s[i] \in Letters})

\* What a user types into "Yeni cihaz adi".
RawNames == {r \in SeqsUpTo(Alphabet, MaxNameLen) : NumLetters(r) <= MaxLetters}

\* str.split(): the maximal runs of non-whitespace characters, in order.
RECURSIVE split(_)
split(s) ==
  IF s = <<>> THEN <<>>
  ELSE IF Head(s) \in White THEN split(Tail(s))
  ELSE LET rest == split(Tail(s))
       IN IF Len(s) > 1 /\ s[2] \notin White
          THEN <<(<<Head(s)>> \o Head(rest))>> \o Tail(rest)
          ELSE <<(<<Head(s)>>)>> \o rest

\* " ".join(words)
RECURSIVE join(_)
join(ws) ==
  IF ws = <<>> THEN <<>>
  ELSE IF Len(ws) = 1 THEN Head(ws)
  ELSE Head(ws) \o <<" ">> \o join(Tail(ws))

\* " ".join((name or "").strip().split())
normalize_name(name) == join(split(name))

\* SQL lower() on one character, and on a text value.
lowerChar(c) == IF c = "A" THEN "a" ELSE c
lower(s) == [i \in 1..Len(s) |-> lowerChar(s[i])]

\* ------------------------------------------------------------- admin gate
TokenValues == {None, Some(""), Some("tok")}
EnvValues == {None, Some(""), Some("env")}
Passwords == {"", "tok", "env", "bad"}

\* Python truthiness of an optional string.
Truthy(o) == o # None /\ Val(o) # ""

\* token = st.secrets.get("ADMIN_TOKEN"); if not token: os.environ.get(...)
AdminToken == IF Truthy(secrets_token) THEN secrets_token ELSE env_token

LoginOkAlways(pwd) == TRUE
LoginOk(pwd) == Truthy(AdminToken) /\ pwd = Val(AdminToken)

Login(s, pwd) ==
  /\ pc[s] = "idle"
  /\ ~admin_authed[s]
  /\ IF LoginOk(pwd)
     THEN /\ admin_authed' = [admin_authed EXCEPT ![s] = TRUE]
          /\ msg' = [msg EXCEPT ![s] = "login_ok"]
     ELSE /\ admin_authed' = admin_authed
          /\ msg' = [msg EXCEPT ![s] = "invalid_password"]
  /\ UNCHANGED <<secrets_token, env_token, pc, pend, devices, faultvars>>

Logout(s) ==
  /\ pc[s] = "idle"
  /\ admin_authed[s]
  /\ admin_authed' = [admin_authed EXCEPT ![s] = FALSE]
  /\ msg' = [msg EXCEPT ![s] = "none"]
  /\ UNCHANGED <<secrets_token, env_token, pc, pend, devices, faultvars>>

\* ------------------------------------------------------------- device registry
\* is_admin, as main() reads it and page_devices tests it before the form.
is_adminAny(s) == TRUE
is_admin(s) == admin_authed[s]

\* SELECT 1 FROM devices WHERE lower(name)=lower(:n) LIMIT 1
dupExact(n) == \E i \in 1..Len(devices) : devices[i].name = n
dup(n) == \E i \in 1..Len(devices) : lower(devices[i].name) = lower(n)

\* name TEXT NOT NULL UNIQUE: the constraint compares the text as stored.
UniqueViolation(n) == \E i \in 1..Len(devices) : devices[i].name = n

Inserting == {s \in Sessions : pc[s] = "insert"}

\* The submitted form up to the duplicate check.
DevSubmit(s, raw) ==
  /\ pc[s] = "idle"
  /\ is_admin(s)
  /\ LET name == normalize_name(raw)
     IN IF name = <<>>
        THEN /\ msg' = [msg EXCEPT ![s] = "name_required"]
             /\ UNCHANGED <<pc, pend>>
        ELSE IF dup(name)
        THEN /\ msg' = [msg EXCEPT ![s] = "duplicate"]
             /\ UNCHANGED <<pc, pend>>
        ELSE /\ Len(devices) + Cardinality(Inserting) < MaxDevices
             /\ pc' = [pc EXCEPT ![s] = "insert"]
             /\ pend' = [pend EXCEPT ![s] = name]
             /\ msg' = [msg EXCEPT ![s] = "none"]
  /\ UNCHANGED <<secrets_token, env_token, admin_authed, devices, faultvars>>

\* Readings of datetime.now(timezone.utc).
Clock == 0..MaxClock

\* The INSERT and the commit of the same transaction.
DevInsert(s, now) ==
  /\ pc[s] = "insert"
  /\ IF UniqueViolation(pend[s])
     THEN /\ msg' = [msg EXCEPT ![s] = "insert_error"]
          /\ devices' = devices
     ELSE /\ devices' = Append(devices,
                 [id |-> Len(devices) + 1, name |-> pend[s], created_at |-> now])
          /\ msg' = [msg EXCEPT ![s] = "added"]
  /\ pc' = [pc EXCEPT ![s] = "idle"]
  /\ pend' = [pend EXCEPT ![s] = <<>>]
  /\ UNCHANGED <<secrets_token, env_token, admin_authed, faultvars>>

\* ------------------------------------------------------------- clock and zone
\* TZ = ZoneInfo("Europe/Istanbul"), from 2015-11-08 04:00 local on: UTC+2
\* until the clocks went from 03:00 to 04:00 on 2016-03-27, UTC+3 ever since.
EET == 2 * 3600
EEST == 3 * 3600
GapStart == 3 * 3600
GapEnd == 4 * 3600
TransitionUtc == GapStart - EET
Day == 24 * 3600

\* tzinfo.utcoffset() of a wall-clock value with fold=0: a value inside the
\* skipped hour gets the offset in force before the transition.
utcoffset(local) == IF local < GapEnd THEN EET ELSE EEST

\* datetime.combine(d, t).replace(tzinfo=TZ).astimezone(timezone.utc)
astimezone_utc(local) == local - utcoffset(local)

\* datetime.__lt__ of two aware values sharing one tzinfo: the wall-clock
\* values are compared, the offsets are not applied.
aware_lt(a, b) == a < b

Max(a, b) == IF a >= b THEN a ELSE b

\* compute_duration_min(start_iso, end_iso)
compute_duration_min(start_iso, end_iso) ==
  IF start_iso = None \/ end_iso = None THEN None
  ELSE Some(Max(0, (Val(end_iso) - Val(start_iso)) \div 60))

\* The same computation as the edit panel writes it out.
dur2(start_iso2, end_iso2) == Max(0, (end_iso2 - start_iso2) \div 60)

\* (reason or None)
orNone(text) == IF text = <<>> THEN None ELSE Some(text)

\* ------------------------------------------------------------- fault entry
Reasons == {<<>>, <<"r">>}

\* device_map: the ids the "Cihaz" selectbox offers.
device_map == {devices[i].id : i \in 1..Len(devices)}

\* The end-before-start test of both forms.
end_before_startNever(st_local, en_local) == FALSE
end_before_start(st_local, en_local) == aware_lt(en_local, st_local)

\* page_new_fault, "Kaydi Olustur" pressed.  en is the optional end
\* ("Bitis yok" checked: None).
Create(s, d, r, st_local, en, now) ==
  /\ pc[s] \in {"idle", "form"}
  /\ d \in device_map
  /\ Len(faults) < MaxFaults
  /\ LET start_iso == astimezone_utc(st_local)
     IN IF en # None /\ end_before_start(st_local, Val(en))
        THEN /\ msg' = [msg EXCEPT ![s] = "end_before_start"]
             /\ faults' = faults
        ELSE LET end_iso == IF en = None THEN None
                            ELSE Some(astimezone_utc(Val(en)))
                 dur == IF en = None THEN None
                        ELSE compute_duration_min(Some(start_iso), end_iso)
             IN /\ faults' = Append(faults,
                      [id |-> Len(faults) + 1, device_id |-> d,
                       reason |-> orNone(r), started_utc |-> start_iso,
                       ended_utc |-> end_iso, duration_min |-> dur,
                       created_at |-> now])
                /\ msg' = [msg EXCEPT ![s] = "created"]
  /\ pc' = [pc EXCEPT ![s] = "idle"]
  /\ UNCHANGED <<secrets_token, env_token, admin_authed, pend, devices,
                 edit, form, view>>

\* ------------------------------------------------------------- listing
\* pd.Timestamp.min.time() is 00:12:43.145224 and pd.Timestamp.max.time() is
\* 23:47:16.854775 (the clock parts of pandas' least and greatest Timestamp).
MinTimeSec == 12 * 60 + 43
MinTimeUs == 145224
MaxTimeSec == 23 * 3600 + 47 * 60 + 16
MaxTimeUs == 854775

\* An instant with its microseconds, and the order of two of them.
Ts(sec, us) == [sec |-> sec, us |-> us]
TsLe(a, b) == a.sec < b.sec \/ (a.sec = b.sec /\ a.us <= b.us)

\* Timestamp.combine(d, t).tz_localize(TZ).tz_convert("UTC")
range_start(dfrom) == Ts(astimezone_utc(dfrom * Day + MinTimeSec), MinTimeUs)
range_end(dto) == Ts(astimezone_utc(dto * Day + MaxTimeSec), MaxTimeUs)

\* WHERE f.started_utc BETWEEN :a AND :b
between(x, a, b) == TsLe(a, Ts(x, 0)) /\ TsLe(Ts(x, 0), b)

\* FROM faults f JOIN devices d ON d.id=f.device_id WHERE ... : the ids
selected(dfrom, dto) ==
  {i \in 1..Len(faults) :
      /\ \E j \in 1..Len(devices) : devices[j].id = faults[i].device_id
      /\ between(faults[i].started_utc, range_start(dfrom), range_end(dto))}

\* ORDER BY f.started_utc DESC: every order of the selected ids that is
\* descending in started_utc (SQL leaves the order of equal keys open).
Orders(S) ==
  {q \in [1..Cardinality(S) -> S] :
      /\ \A i, j \in 1..Cardinality(S) : i # j => q[i] # q[j]
      /\ \A i, j \in 1..Cardinality(S) :
            i < j => faults[q[i]].started_utc >= faults[q[j]].started_utc}

Days == 0..MaxDay

\* page_list_export down to the table: the query of the chosen range.
Query(s, dfrom, dto) ==
  /\ pc[s] \in {"idle", "form"}
  /\ \E q \in Orders(selected(dfrom, dto)) :
        view' = [view EXCEPT ![s] = Some([dfrom |-> dfrom, dto |-> dto, ids |-> q])]
  /\ pc' = [pc EXCEPT ![s] = "idle"]
  /\ UNCHANGED <<secrets_token, env_token, admin_authed, msg, pend, devices,
                 faults, edit, form>>

\* page_list_export down to the edit form: a row of the listing is chosen
\* and the form is built from it.
Load(s, dfrom, dto, id) ==
  /\ pc[s] \in {"idle", "form"}
  /\ id \in selected(dfrom, dto)
  /\ edit' = [edit EXCEPT ![s] = Some(id)]
  /\ form' = [form EXCEPT ![s] = None]
  /\ pc' = [pc EXCEPT ![s] = "form"]
  /\ UNCHANGED <<secrets_token, env_token, admin_authed, msg, pend, devices,
                 faults, view>>

\* "Degisiklikleri Kaydet" pressed: the values are read and validated.
EditSubmit(s, d, r, st_local, en) ==
  /\ pc[s] = "form"
  /\ d \in device_map
  /\ form' = [form EXCEPT ![s] =
                 Some([d |-> d, r |-> r, st_local |-> st_local, en |-> en])]
  /\ IF en # None /\ end_before_start(st_local, Val(en))
     THEN /\ msg' = [msg EXCEPT ![s] = "end_before_start"]
          /\ pc' = pc
     ELSE /\ msg' = [msg EXCEPT ![s] = "none"]
          /\ pc' = [pc EXCEPT ![s] = "update"]
  /\ UNCHANGED <<secrets_token, env_token, admin_authed, pend, devices,
                 faults, edit, view>>

\* The row the UPDATE statement leaves, from the old row and the form.
updatedRowKeepEnd(old, f) ==
  [old EXCEPT !.device_id = f.d, !.reason = orNone(f.r),
              !.started_utc = astimezone_utc(f.st_local)]
updatedRowClosedGuard(old, f) ==
  IF old.ended_utc # None /\ f.en # None THEN old
  ELSE [old EXCEPT !.device_id = f.d, !.reason = orNone(f.r),
                   !.started_utc = astimezone_utc(f.st_local),
                   !.ended_utc = IF f.en = None THEN None
                                 ELSE Some(astimezone_utc(Val(f.en))),
                   !.duration_min = IF f.en = None THEN None
                       ELSE Some(dur2(astimezone_utc(f.st_local),
                                      astimezone_utc(Val(f.en))))]
updatedRowKeepReason(old, f) ==
  [old EXCEPT !.device_id = f.d,
              !.reason = IF f.r = <<>> THEN old.reason ELSE Some(f.r),
              !.started_utc = astimezone_utc(f.st_local),
              !.ended_utc = IF f.en = None THEN None
                            ELSE Some(astimezone_utc(Val(f.en))),
              !.duration_min = IF f.en = None THEN None
                  ELSE Some(dur2(astimezone_utc(f.st_local),
                                 astimezone_utc(Val(f.en))))]
updatedRow(old, f) ==
  LET start_iso2 == astimezone_utc(f.st_local)
      end_iso2 == IF f.en = None THEN None ELSE Some(astimezone_utc(Val(f.en)))
      dur2v == IF f.en = None THEN None
               ELSE Some(dur2(start_iso2, Val(end_iso2)))
  IN [old EXCEPT !.device_id = f.d, !.reason = orNone(f.r),
                 !.started_utc = start_iso2, !.ended_utc = end_iso2,
                 !.duration_min = dur2v]

\* The UPDATE and its commit, then st.rerun().
EditCommit(s) ==
  /\ pc[s] = "update"
  /\ LET id == Val(edit[s])
     IN faults' = [faults EXCEPT ![id] = updatedRow(faults[id], Val(form[s]))]
  /\ msg' = [msg EXCEPT ![s] = "updated"]
  /\ pc' = [pc EXCEPT ![s] = "idle"]
  /\ UNCHANGED <<secrets_token, env_token, admin_authed, pend, devices,
                 edit, form, view>>

\* ------------------------------------------------------------- specification
AuthInit ==
  /\ secrets_token \in TokenValues
  /\ env_token \in EnvValues
  /\ admin_authed = [s \in Sessions |-> FALSE]
  /\ pc = [s \in Sessions |-> "idle"]
  /\ msg = [s \in Sessions |-> "none"]
  /\ pend = [s \in Sessions |-> <<>>]
  /\ devices = <<>>
  /\ faults = <<>>
  /\ edit = [s \in Sessions |-> None]
  /\ form = [s \in Sessions |-> None]
  /\ view = [s \in Sessions |-> None]

AuthNames == {<<"a">>, <<" ", "A">>}

AuthNext ==
  \/ \E s \in Sessions, pwd \in Passwords : Login(s, pwd)
  \/ \E s \in Sessions : Logout(s)
  \/ \E s \in Sessions, raw \in AuthNames : DevSubmit(s, raw)
  \/ \E s \in Sessions, now \in Clock : DevInsert(s, now)

SpecAuth == AuthInit /\ [][AuthNext]_vars

DevInit ==
  /\ secrets_token = Some("tok")
  /\ env_token = None
  /\ admin_authed = [s \in Sessions |-> FALSE]
  /\ pc = [s \in Sessions |-> "idle"]
  /\ msg = [s \in Sessions |-> "none"]
  /\ pend = [s \in Sessions |-> <<>>]
  /\ devices = <<>>
  /\ faults = <<>>
  /\ edit = [s \in Sessions |-> None]
  /\ form = [s \in Sessions |-> None]
  /\ view = [s \in Sessions |-> None]

DevNext ==
  \/ \E s \in Sessions, pwd \in Passwords : Login(s, pwd)
  \/ \E s \in Sessions : Logout(s)
  \/ \E s \in Sessions, raw \in RawNames : DevSubmit(s, raw)
  \/ \E s \in Sessions, now \in Clock : DevInsert(s, now)

SpecDev == DevInit /\ [][DevNext]_vars

\* Two devices registered, no fault recorded yet.
FaultInit ==
  /\ secrets_token = None
  /\ env_token = None
  /\ admin_authed = [s \in Sessions |-> FALSE]
  /\ pc = [s \in Sessions |-> "idle"]
  /\ msg = [s \in Sessions |-> "none"]
  /\ pend = [s \in Sessions |-> <<>>]
  /\ devices = <<[id |-> 1, name |-> <<"a">>, created_at |-> 0],
                 [id |-> 2, name |-> <<"A", "a">>, created_at |-> 0]>>
  /\ faults = <<>>
  /\ edit = [s \in Sessions |-> None]
  /\ form = [s \in Sessions |-> None]
  /\ view = [s \in Sessions |-> None]

\* Wall-clock values around the skipped hour of 2016-03-27: 03:30, 04:00, ...
Slots == {3 * 3600 + 30 * 60 + k * 30 * 60 : k \in 0..MaxSlot}
OptSlots == {None} \cup {Some(x) : x \in Slots}
DeviceIds == {1, 2}

\* One session entering, listing and editing faults.
FaultNext ==
  \/ \E d \in DeviceIds, r \in Reasons, st \in Slots, en \in OptSlots, now \in Clock :
        Create("s1", d, r, st, en, now)
  \/ \E dfrom \in Days, dto \in Days, id \in 1..MaxFaults : Load("s1", dfrom, dto, id)
  \/ \E d \in DeviceIds, r \in Reasons, st \in Slots, en \in OptSlots :
        EditSubmit("s1", d, r, st, en)
  \/ EditCommit("s1")

SpecFault == FaultInit /\ [][FaultNext]_vars

\* Two devices and one open fault recorded.
ConcInit ==
  /\ secrets_token = None
  /\ env_token = None
  /\ admin_authed = [s \in Sessions |-> FALSE]
  /\ pc = [s \in Sessions |-> "idle"]
  /\ msg = [s \in Sessions |-> "none"]
  /\ pend = [s \in Sessions |-> <<>>]
  /\ devices = <<[id |-> 1, name |-> <<"a">>, created_at |-> 0],
                 [id |-> 2, name |-> <<"A", "a">>, created_at |-> 0]>>
  /\ faults = <<[id |-> 1, device_id |-> 1, reason |-> None,
                 started_utc |-> astimezone_utc(GapEnd), ended_utc |-> None,
                 duration_min |-> None, created_at |-> 0]>>
  /\ edit = [s \in Sessions |-> None]
  /\ form = [s \in Sessions |-> None]
  /\ view = [s \in Sessions |-> None]

\* Two sessions listing and editing the recorded fault.
ConcNext ==
  \/ \E s \in Sessions, dfrom \in Days, dto \in Days, id \in 1..MaxFaults :
        Load(s, dfrom, dto, id)
  \/ \E s \in Sessions, d \in DeviceIds, r \in Reasons, st \in Slots, en \in OptSlots :
        EditSubmit(s, d, r, st, en)
  \/ \E s \in Sessions : EditCommit(s)

SpecConc == ConcInit /\ [][ConcNext]_vars

\* Local start times on the days 0..MaxDay: 00:00, 12:00 and 23:50.
QTimes == {0, 12 * 3600, 23 * 3600 + 50 * 60}
QStarts == {d * Day + x : d \in Days, x \in QTimes}

\* One session entering open faults and listing date ranges.
QueryNext ==
  \/ \E st \in QStarts, now \in Clock : Create("s1", 1, <<>>, st, None, now)
  \/ \E dfrom \in Days, dto \in Days : Query("s1", dfrom, dto)

SpecQuery == FaultInit /\ [][QueryNext]_vars

\* ------------------------------------------------------------- properties
\* What the claims mean by their words, stated without the program's helpers.

\* m is floor(secs / 60) clamped to a minimum of 0.
IsFloorClamped(m, secs) ==
  IF secs < 0 THEN m = 0 ELSE m * 60 <= secs /\ secs < (m + 1) * 60

\* a and b are the same text ignoring the case of the letters.
SameIgnoringCase(a, b) ==
  /\ Len(a) = Len(b)
  /\ \A i \in 1..Len(a) : a[i] = b[i] \/ {a[i], b[i]} = Letters

\* raw trimmed and with every run of whitespace inside it made one space:
\* a character is kept if it is a letter, or the last blank of a run that has
\* a letter before it and a letter after it.
Kept(raw, i) ==
  \/ raw[i] \in Letters
  \/ /\ i < Len(raw)
     /\ raw[i + 1] \in Letters
     /\ \E j \in 1..(i - 1) : raw[j] \in Letters
RECURSIVE TrimCollapseFrom(_, _)
TrimCollapseFrom(raw, i) ==
  IF i > Len(raw) THEN <<>>
  ELSE IF Kept(raw, i)
       THEN <<(IF raw[i] \in Letters THEN raw[i] ELSE " ")>> \o TrimCollapseFrom(raw, i + 1)
       ELSE TrimCollapseFrom(raw, i + 1)
TrimCollapse(raw) == TrimCollapseFrom(raw, 1)
TrimCollapsed == [raw \in RawNames |-> TrimCollapse(raw)]

FaultIds == 1..Len(faults)

\* C1: every stored fault whose end instant is present has a UTC end that is
\* not before its UTC start.
C1_EndNotBeforeStart ==
  \A i \in FaultIds :
     faults[i].ended_utc # None => Val(faults[i].ended_utc) >= faults[i].started_utc

\* C2: in every stored fault the duration is present exactly when the end is,
\* and is then floor((end - start) seconds / 60) clamped to a minimum of 0.
C2_DurationConsistent ==
  \A i \in FaultIds :
     /\ (faults[i].duration_min = None) <=> (faults[i].ended_utc = None)
     /\ faults[i].ended_utc # None =>
           IsFloorClamped(Val(faults[i].duration_min),
                          Val(faults[i].ended_utc) - faults[i].started_utc)

\* An edit that gave a later start and an end has been written, and the stored
\* duration is the 30 minutes between them.
C2_Witness ==
  /\ msg["s1"] = "updated"
  /\ form["s1"] # None /\ edit["s1"] # None
  /\ Val(form["s1"]).en # None
  /\ faults[Val(edit["s1"])].started_utc = astimezone_utc(Val(form["s1"]).st_local)
  /\ faults[Val(edit["s1"])].duration_min = Some(30)

C4_DuplicateOrEmptyRejected ==
  [][\A s \in Sessions :
        (/\ pc[s] = "idle" /\ admin_authed[s] /\ admin_authed'[s]
         /\ <<msg[s], pc[s]>> # <<msg'[s], pc'[s]>>) =>
        \A raw \in RawNames :
          /\ (TrimCollapsed[raw] = <<>> /\ DevSubmit(s, raw)) =>
                (msg'[s] = "name_required" /\ devices' = devices /\ pc'[s] = "idle")
          /\ ((\E i \in 1..Len(devices) :
                  SameIgnoringCase(devices[i].name, TrimCollapsed[raw]))
               /\ DevSubmit(s, raw)) =>
                (msg'[s] = "duplicate" /\ devices' = devices /\ pc'[s] = "idle")]_vars

\* One session was told its name is a duplicate, the other that the name is
\* empty, with a device registered.
C4_Witness ==
  /\ msg["s1"] = "duplicate"
  /\ msg["s2"] = "name_required"
  /\ Len(devices) = 1
  /\ pc = [s \in Sessions |-> "idle"]

\* C5: a device row is inserted only by the step of a session that is
\* authenticated at that moment, and a session is authenticated whenever its
\* registration is in progress.
C5_OnlyAdminInserts ==
  [][/\ devices' # devices =>
          \E s \in Sessions :
             /\ pc[s] = "insert" /\ pc'[s] = "idle" /\ admin_authed[s]
             /\ \A o \in Sessions \ {s} : pc'[o] = pc[o]
     /\ \A s \in Sessions : pc'[s] = "insert" => admin_authed'[s]]_vars

\* An authenticated session has added a device while the other session is
\* anonymous and was refused the login.
C5_Witness ==
  /\ admin_authed["s1"] /\ msg["s1"] = "added"
  /\ ~admin_authed["s2"] /\ msg["s2"] = "invalid_password"
  /\ Len(devices) = 1

\* The token counted as configured: the secret store's if not empty, else the
\* environment's if not empty.
NoTokenConfigured ==
  /\ secrets_token \in {None, Some("")}
  /\ env_token \in {None, Some("")}
ConfiguredToken ==
  IF secrets_token \notin {None, Some("")} THEN Val(secrets_token) ELSE Val(env_token)

\* C6: a session becomes authenticated only by a login attempt whose password
\* is the configured, non-empty token; any other attempt, and every attempt
\* when no token is configured, leaves the session anonymous.
C6_LoginOnlyWithToken ==
  [][\A s \in Sessions :
        /\ (~admin_authed[s] /\ admin_authed'[s]) =>
              /\ ~NoTokenConfigured
              /\ Login(s, ConfiguredToken)
        /\ \A pwd \in Passwords :
              (Login(s, pwd) /\ (NoTokenConfigured \/ pwd # ConfiguredToken)) =>
                  (~admin_authed'[s] /\ msg'[s] = "invalid_password")]_vars

\* With an empty token in the secret store and one in the environment, one
\* session has logged in and the other was refused.
C6_Witness ==
  /\ secrets_token = Some("") /\ env_token = Some("env")
  /\ admin_authed["s1"] /\ msg["s1"] = "login_ok"
  /\ ~admin_authed["s2"] /\ msg["s2"] = "invalid_password"

InLocalDateRange(dfrom, dto) ==
  {i \in FaultIds :
      LET s == faults[i].started_utc
          localStart == IF s < TransitionUtc THEN s + EET ELSE s + EEST
      IN dfrom * Day <= localStart /\ localStart < (dto + 1) * Day}

\* C8: a listing returns exactly the faults whose local start date is in the
\* range, each once, by start instant descending.
C8_ListingExact ==
  [][\A s \in Sessions :
        (view'[s] # view[s] /\ view'[s] # None) =>
            LET v == Val(view'[s])
            IN /\ {v.ids[k] : k \in 1..Len(v.ids)} = InLocalDateRange(v.dfrom, v.dto)
               /\ \A j, k \in 1..Len(v.ids) : j # k => v.ids[j] # v.ids[k]
               /\ \A j, k \in 1..Len(v.ids) :
                     j < k => faults[v.ids[j]].started_utc >= faults[v.ids[k]].started_utc]_vars

\* C9: no two device rows have names that are equal ignoring case.
C9_NamesUniqueIgnoringCase ==
  \A i, j \in 1..Len(devices) :
     i # j => ~SameIgnoringCase(devices[i].name, devices[j].name)

\* C10: the UPDATE of an edit is applied without an error and leaves the row
\* with every mutable field (device, reason, start, end, duration) taken from
\* that edit's own form, whatever the other session wrote or has pending; the
\* row's id and creation timestamp and all other rows are unchanged.
C10_LastWriteWinsWhole ==
  [][\A s \in Sessions :
        (pc[s] = "update" /\ pc'[s] = "idle") =>
            LET id == Val(edit[s])
                f == Val(form[s])
                startUtc == IF f.st_local < GapEnd THEN f.st_local - EET
                            ELSE f.st_local - EEST
            IN /\ msg'[s] = "updated"
               /\ faults'[id].device_id = f.d
               /\ faults'[id].reason = (IF f.r = <<>> THEN None ELSE Some(f.r))
               /\ faults'[id].started_utc = startUtc
               /\ IF f.en = None
                  THEN faults'[id].ended_utc = None /\ faults'[id].duration_min = None
                  ELSE LET e == Val(f.en)
                           endUtc == IF e < GapEnd THEN e - EET ELSE e - EEST
                       IN /\ faults'[id].ended_utc = Some(endUtc)
                          /\ faults'[id].duration_min # None
                          /\ IsFloorClamped(Val(faults'[id].duration_min),
                                            endUtc - startUtc)
               /\ faults'[id].id = faults[id].id
               /\ faults'[id].created_at = faults[id].created_at
               /\ Len(faults') = Len(faults)
               /\ \A k \in FaultIds : k # id => faults'[k] = faults[k]]_vars

\* Both sessions have written edits of fault 1 whose forms differ in device,
\* reason, start and end; the row holds the values of the second session's.
C10_Witness ==
  /\ msg["s1"] = "updated" /\ msg["s2"] = "updated"
  /\ pc["s1"] = "idle" /\ pc["s2"] = "idle"
  /\ edit["s1"] = Some(1) /\ edit["s2"] = Some(1)
  /\ form["s1"] # None /\ form["s2"] # None
  /\ Val(form["s1"]).d # Val(form["s2"]).d
  /\ Val(form["s1"]).r # Val(form["s2"]).r
  /\ Val(form["s1"]).st_local # Val(form["s2"]).st_local
  /\ Val(form["s1"]).en # Val(form["s2"]).en
  /\ Val(form["s1"]).en # None /\ Val(form["s2"]).en # None
  /\ faults[1].device_id = Val(form["s2"]).d
  /\ faults[1].reason = orNone(Val(form["s2"]).r)
  /\ faults[1].started_utc = astimezone_utc(Val(form["s2"]).st_local)
  /\ faults[1].ended_utc = Some(astimezone_utc(Val(Val(form["s2"]).en)))
====
